---- MODULE Spec2Model ----
(***************************************************************************)
(* Login rate limiter of src/lib/rate-limit.ts: checkRateLimit,            *)
(* recordFailedAttempt, clearRateLimit over the login_rate_limits table,   *)
(* called by concurrent login requests.                                    *)
(*                                                                         *)
(* A recordFailedAttempt call is three steps, as in the code: it reads the *)
(* clock (line 100), runs SELECT ... FOR UPDATE inside a transaction       *)
(* (lines 104-110), then decides, writes and commits (lines 113-210).      *)
(* checkRateLimit is two steps: it reads the clock (line 36), then reads   *)
(* the row without a lock (lines 38-40) and decides.  clearRateLimit is    *)
(* one DELETE statement.  The clock advances between any two steps.        *)
(***************************************************************************)
EXTENDS Integers, Sequences, FiniteSets

\* ---------------------------------------------------------------- bounds
NumProcs == 2
MaxWindows == 3
MaxTicks == 1
MaxIssued == 2
MaxLen == 3

Procs == 1..NumProcs
Ids == {"a", "b"}
\* The identifiers the login requests of Spec and SpecSerial come from.
Clients == {"a"}

\* ---------------------------------------------------------------- CONFIG
WINDOW_MS == 15 * 60 * 1000
MAX_ATTEMPTS == 5
BLOCK_DURATION_MS == 30 * 60 * 1000

\* A Date column that is NULL, and one that holds the time t.
Null == <<>>
Date(t) == <<t>>
getTime(d) == d[1]

NoMessage == <<>>

Min2(a, b) == IF a <= b THEN a ELSE b
Max2(a, b) == IF a >= b THEN a ELSE b
\* Math.ceil(a / b) for b > 0 (\div rounds towards minus infinity)
Ceil(a, b) == 0 - ((0 - a) \div b)

secondsUntil(targetMs, nowMs) == Max2(0, Ceil(targetMs - nowMs, 1000))

\* ---------------------------------------------------------------- state
VARIABLES
    now,        \* Date.now(), in ms
    table,      \* rows of login_rate_limits, in insertion order
    pc,         \* per request: where it stands
    arg,        \* per request: the identifier of the call in progress
    nowMs,      \* per request: the clock value its call read
    rows,       \* per request: existingRows of recordFailedAttempt
    last,       \* the call that returned last: which, for which identifier,
                \* with which clock value, and what it returned
    issued,     \* history, per identifier: recordFailedAttempt calls issued
                \* since the clock last advanced
    clean,      \* history, per identifier: when the clock last advanced it had
                \* no row and no recordFailedAttempt call in progress, and it
                \* was not cleared since
    admitted,   \* history, per identifier: attempts checkRateLimit let through
                \* since the clock last advanced or the identifier was cleared
    req         \* a request: its headers and the identifier getClientIP
                \* derived from them

vars == <<now, table, pc, arg, nowMs, rows, last, issued, clean, admitted, req>>

\* ---------------------------------------------------------------- results
\* RateLimitResult (lines 23-29).  outcome tells a returned result from a
\* call that has not returned and from one that threw.
Result(success, remaining, resetIn, blocked, message) ==
    [outcome |-> "returned", success |-> success, remaining |-> remaining,
     resetIn |-> resetIn, blocked |-> blocked, message |-> message]
NoResult ==
    [outcome |-> "none", success |-> FALSE, remaining |-> 0,
     resetIn |-> 0, blocked |-> FALSE, message |-> NoMessage]
Threw ==
    [outcome |-> "threw", success |-> FALSE, remaining |-> 0,
     resetIn |-> 0, blocked |-> FALSE, message |-> NoMessage]

\* ---------------------------------------------------------------- the table
Row(identifier, count, firstAttemptAt, lastAttemptAt, blockedUntil) ==
    [identifier |-> identifier, count |-> count,
     firstAttemptAt |-> firstAttemptAt, lastAttemptAt |-> lastAttemptAt,
     blockedUntil |-> blockedUntil]

\* SELECT * FROM login_rate_limits WHERE identifier = id
Matches(id, r) == r.identifier = id
SelectWhere(t, id) == SelectSeq(t, LAMBDA r : Matches(id, r))
\* Variant: the DELETE without its WHERE clause.
DeleteWhere_EveryRow(t, id) == <<>>
\* DELETE FROM login_rate_limits WHERE identifier = id
DeleteWhere(t, id) == SelectSeq(t, LAMBDA r : ~Matches(id, r))
\* UPDATE login_rate_limits SET ... WHERE identifier = id
UpdateWhere(t, id, set(_)) ==
    [i \in 1..Len(t) |-> IF Matches(id, t[i]) THEN set(t[i]) ELSE t[i]]
\* Variant: the identifier column carries no unique constraint.
UniqueViolation_None(t, id) == FALSE
\* The identifier column is unique: an INSERT of a second row for it fails.
UniqueViolation(t, id) == SelectWhere(t, id) # <<>>

\* ---------------------------------------------------------------- checkRateLimit
\* The decision of checkRateLimit on the rows its query found.
\* Variant: the window compared with the wrong duration.
windowExpired_WrongSpan(record, t) ==
    t > getTime(record.firstAttemptAt) + BLOCK_DURATION_MS
\* Variant: the window over already at its last millisecond.
windowExpired_Inclusive(record, t) ==
    t >= getTime(record.firstAttemptAt) + WINDOW_MS
\* lines 65-67 and 146-148: nowMs > windowEndsMs
windowExpired(record, t) == t > getTime(record.firstAttemptAt) + WINDOW_MS

\* Variant: a block that is set counts whatever the time.
blockedActive_Forever(record, t) == record.blockedUntil # Null
\* Variant: the window tested before the block, so that a block lasts only
\* as long as the window.
blockedActive_UnlessWindowOver(record, t) ==
    /\ record.blockedUntil # Null
    /\ getTime(record.blockedUntil) > t
    /\ ~(t > getTime(record.firstAttemptAt) + WINDOW_MS)
\* Variant: the comparison of the block turned round.
blockedActive_Reversed(record, t) ==
    /\ record.blockedUntil # Null
    /\ getTime(record.blockedUntil) < t
\* lines 51-53 and 131-133: record.blockedUntil && blockedUntilMs > nowMs
blockedActive(record, t) ==
    /\ record.blockedUntil # Null
    /\ getTime(record.blockedUntil) > t

\* Variant: the limit reached one failure late.
reachedLimit_Off(newCount) == newCount > MAX_ATTEMPTS
\* line 172: newCount >= CONFIG.MAX_ATTEMPTS
reachedLimit(newCount) == newCount >= MAX_ATTEMPTS
\* line 173: nowMs + CONFIG.BLOCK_DURATION_MS
blockEndsMs(t) == t + BLOCK_DURATION_MS
\* Variant: the warning given only for the last attempt.
lowAttempts_LastOnly(remaining) == remaining <= 1
\* line 208: remaining <= 2
lowAttempts(remaining) == remaining <= 2

checkRateLimit(found, t) ==
    IF found = <<>>
    THEN Result(TRUE, MAX_ATTEMPTS, secondsUntil(t + WINDOW_MS, t), FALSE, NoMessage)
    ELSE LET record == found[1]
             windowEndsMs == getTime(record.firstAttemptAt) + WINDOW_MS
             remaining == MAX_ATTEMPTS - record.count
         IN  IF blockedActive(record, t)
             THEN LET resetIn == secondsUntil(getTime(record.blockedUntil), t)
                  IN  Result(FALSE, 0, resetIn, TRUE, <<"retryInMinutes", Ceil(resetIn, 60)>>)
             ELSE IF windowExpired(record, t)
             THEN Result(TRUE, MAX_ATTEMPTS, secondsUntil(t + WINDOW_MS, t), FALSE, NoMessage)
             ELSE IF remaining <= 0
             THEN Result(FALSE, 0, secondsUntil(windowEndsMs, t), FALSE, <<"tooMany">>)
             ELSE Result(TRUE, remaining, secondsUntil(windowEndsMs, t), FALSE, NoMessage)

\* ---------------------------------------------------------------- recordFailedAttempt
\* What the transaction body does with existingRows: the statement it runs
\* (write) and the result it returns.
NoWrite == [op |-> "none"]
Insert(row) == [op |-> "insert", row |-> row]
ResetWindow(t) == [op |-> "reset", at |-> t]
Block(count, t) == [op |-> "block", count |-> count, at |-> t]
Increment(count, t) == [op |-> "increment", count |-> count, at |-> t]

recordFailedAttempt(id, found, t) ==
    IF found = <<>>
    THEN [write |-> Insert(Row(id, 1, Date(t), Date(t), Null)),
          result |-> Result(TRUE, MAX_ATTEMPTS - 1, secondsUntil(t + WINDOW_MS, t),
                            FALSE, NoMessage)]
    ELSE LET record == found[1]
             windowEndsMs == getTime(record.firstAttemptAt) + WINDOW_MS
             newCount == record.count + 1
             remaining == MAX_ATTEMPTS - newCount
         IN  IF blockedActive(record, t)
             THEN LET resetIn == secondsUntil(getTime(record.blockedUntil), t)
                  IN  [write |-> NoWrite,
                       result |-> Result(FALSE, 0, resetIn, TRUE,
                                         <<"retryInMinutes", Ceil(resetIn, 60)>>)]
             ELSE IF windowExpired(record, t)
             THEN [write |-> ResetWindow(t),
                   result |-> Result(TRUE, MAX_ATTEMPTS - 1,
                                     secondsUntil(t + WINDOW_MS, t), FALSE, NoMessage)]
             ELSE IF reachedLimit(newCount)
             THEN LET resetIn == secondsUntil(blockEndsMs(t), t)
                  IN  [write |-> Block(newCount, t),
                       result |-> Result(FALSE, 0, resetIn, TRUE,
                                         <<"lockedForMinutes", Ceil(resetIn, 60)>>)]
             ELSE [write |-> Increment(newCount, t),
                   result |-> Result(TRUE, remaining, secondsUntil(windowEndsMs, t), FALSE,
                                     IF lowAttempts(remaining)
                                     THEN <<"attemptsLeft", remaining>>
                                     ELSE NoMessage)]

\* The statement of a write, run on the table.
ApplyWrite(t, id, w) ==
    CASE w.op = "none" -> t
      [] w.op = "insert" -> Append(t, w.row)
      [] w.op = "reset" ->
            UpdateWhere(t, id, LAMBDA r : [r EXCEPT !.count = 1,
                                                    !.firstAttemptAt = Date(w.at),
                                                    !.lastAttemptAt = Date(w.at),
                                                    !.blockedUntil = Null])
      [] w.op = "block" ->
            UpdateWhere(t, id, LAMBDA r : [r EXCEPT !.count = w.count,
                                                    !.lastAttemptAt = Date(w.at),
                                                    !.blockedUntil =
                                                        Date(blockEndsMs(w.at))])
      [] w.op = "increment" ->
            UpdateWhere(t, id, LAMBDA r : [r EXCEPT !.count = w.count,
                                                    !.lastAttemptAt = Date(w.at)])

\* Variant: the row reset to a count of zero instead of deleted.
clearRateLimit_Reset(t, id) ==
    UpdateWhere(t, id, LAMBDA r : [r EXCEPT !.count = 0, !.blockedUntil = Null])
\* clearRateLimit: one DELETE statement.
clearRateLimit(t, id) == DeleteWhere(t, id)

\* ---------------------------------------------------------------- headers
\* A string is the sequence of its characters.  headers.get(name) is NULL
\* when the request has no such header, else its value, which carries no
\* leading or trailing whitespace.
Chars == {"1", ",", " "}
NoHeader == <<"null">>
unknown == <<"u", "n", "k", "n", "o", "w", "n">>
Strings(n) == UNION {[1..k -> Chars] : k \in 0..n}
HeaderValues(n) ==
    {v \in Strings(n) : v = <<>> \/ (v[1] # " " /\ v[Len(v)] # " ")}
Headers ==
    [cf : {NoHeader} \cup HeaderValues(1),
     xff : {NoHeader} \cup HeaderValues(MaxLen),
     xri : {NoHeader} \cup HeaderValues(1)]
\* if (value): neither NULL nor the empty string
Truthy(v) == v # NoHeader /\ v # <<>>

\* String.prototype.split(","): the pieces between the commas
RECURSIVE split(_)
split(s) ==
    IF \A i \in 1..Len(s) : s[i] # ","
    THEN <<s>>
    ELSE LET i == CHOOSE k \in 1..Len(s) :
                      s[k] = "," /\ \A m \in 1..(k - 1) : s[m] # ","
         IN  <<SubSeq(s, 1, i - 1)>> \o split(SubSeq(s, i + 1, Len(s)))
\* String.prototype.trim(): whitespace removed at both ends
RECURSIVE trimStart(_)
trimStart(s) == IF s # <<>> /\ Head(s) = " " THEN trimStart(Tail(s)) ELSE s
RECURSIVE trimEnd(_)
trimEnd(s) ==
    IF s # <<>> /\ s[Len(s)] = " "
    THEN trimEnd(SubSeq(s, 1, Len(s) - 1))
    ELSE s
\* Variant: the entry taken as it stands.
trim_Nothing(s) == s
trim(s) == trimEnd(trimStart(s))

\* getClientIP (lines 225-243)
getClientIP(headers) ==
    IF Truthy(headers.cf) THEN headers.cf
    ELSE IF Truthy(headers.xff) THEN trim(split(headers.xff)[1])
    ELSE IF Truthy(headers.xri) THEN headers.xri
    ELSE unknown

NoRequest ==
    [headers |-> [cf |-> NoHeader, xff |-> NoHeader, xri |-> NoHeader],
     identifier |-> NoHeader]

\* ---------------------------------------------------------------- requests
NoId == "none"
\* before: the rows the call found for its identifier.
NoCall == [call |-> "none", id |-> NoId, at |-> 0, before |-> <<>>, value |-> NoResult]
Returned(call, id, at, before, value) ==
    [call |-> call, id |-> id, at |-> at, before |-> before, value |-> value]

\* A call is in progress: it has read its clock and not yet returned.
InFlight(p) == pc[p] \in {"check", "select", "commit"}
Quiet == \A p \in Procs : ~InFlight(p)
\* A recordFailedAttempt call is in progress.
Recording(p) == pc[p] \in {"select", "commit"}
\* The row of id is locked by a transaction other than p's: that transaction
\* found it with SELECT ... FOR UPDATE and has not committed.
Locked(id, p) ==
    \E q \in Procs \ {p} : pc[q] = "commit" /\ arg[q] = id /\ rows[q] # <<>>
\* A new request takes the first free slot; a request that passed
\* checkRateLimit goes on with the identifier it checked.
FirstIdle(p) == pc[p] = "idle" /\ \A q \in Procs : q < p => pc[q] # "idle"
MayCall(p, id) == FirstIdle(p) \/ (pc[p] = "verify" /\ arg[p] = id)

Saturate(n) == Min2(n + 1, MAX_ATTEMPTS + 1)

InitStore ==
    /\ now = 0
    /\ table = <<>>
    /\ pc = [p \in Procs |-> "idle"]
    /\ arg = [p \in Procs |-> NoId]
    /\ nowMs = [p \in Procs |-> 0]
    /\ rows = [p \in Procs |-> <<>>]
    /\ last = NoCall
    /\ issued = [id \in Ids |-> 0]
    /\ clean = [id \in Ids |-> TRUE]
    /\ admitted = [id \in Ids |-> 0]

Init == InitStore /\ req = NoRequest

\* checkRateLimit, line 36: const nowMs = Date.now()
CheckBegin(p, id) ==
    /\ FirstIdle(p)
    /\ pc' = [pc EXCEPT ![p] = "check"]
    /\ arg' = [arg EXCEPT ![p] = id]
    /\ nowMs' = [nowMs EXCEPT ![p] = now]
    /\ UNCHANGED <<req, now, table, rows, last, issued, clean, admitted>>

\* Variant: checkRateLimit deletes the row whose window it finds over.
CheckReturn_Sweeping(p) ==
    /\ pc[p] = "check"
    /\ LET found == SelectWhere(table, arg[p])
           value == checkRateLimit(found, nowMs[p])
       IN  /\ last' = Returned("check", arg[p], nowMs[p], found, value)
           /\ pc' = [pc EXCEPT ![p] = IF value.success THEN "verify" ELSE "idle"]
           /\ arg' = [arg EXCEPT ![p] = IF value.success THEN @ ELSE NoId]
           /\ admitted' = IF value.success
                          THEN [admitted EXCEPT ![arg[p]] = Saturate(@)]
                          ELSE admitted
           /\ table' = IF found # <<>> /\ value.success /\ value.remaining = MAX_ATTEMPTS
                        THEN DeleteWhere(table, arg[p])
                        ELSE table
    /\ nowMs' = [nowMs EXCEPT ![p] = 0]
    /\ UNCHANGED <<req, now, rows, issued, clean>>

\* checkRateLimit, lines 38-93: findFirst, then the decision.  The request
\* handler goes on to verify the credentials when success is true.
CheckReturn(p) ==
    /\ pc[p] = "check"
    /\ LET value == checkRateLimit(SelectWhere(table, arg[p]), nowMs[p])
       IN  /\ last' = Returned("check", arg[p], nowMs[p], SelectWhere(table, arg[p]), value)
           /\ pc' = [pc EXCEPT ![p] = IF value.success THEN "verify" ELSE "idle"]
           /\ arg' = [arg EXCEPT ![p] = IF value.success THEN @ ELSE NoId]
           /\ admitted' = IF value.success
                          THEN [admitted EXCEPT ![arg[p]] = Saturate(@)]
                          ELSE admitted
    /\ nowMs' = [nowMs EXCEPT ![p] = 0]
    /\ UNCHANGED <<req, now, table, rows, issued, clean>>

\* recordFailedAttempt, lines 100-101: const nowMs = Date.now()
RecordBegin(p, id) ==
    /\ MayCall(p, id)
    /\ pc' = [pc EXCEPT ![p] = "select"]
    /\ arg' = [arg EXCEPT ![p] = id]
    /\ nowMs' = [nowMs EXCEPT ![p] = now]
    /\ issued' = [issued EXCEPT ![id] = Saturate(@)]
    /\ UNCHANGED <<req, now, table, rows, last, clean, admitted>>

\* recordFailedAttempt, lines 103-110: the transaction begins and runs
\* SELECT ... FOR UPDATE.  It waits while another transaction holds the lock
\* of the row; when no row matches there is nothing to lock.
RecordSelect(p) ==
    /\ pc[p] = "select"
    /\ ~Locked(arg[p], p)
    /\ rows' = [rows EXCEPT ![p] = SelectWhere(table, arg[p])]
    /\ pc' = [pc EXCEPT ![p] = "commit"]
    /\ UNCHANGED <<req, now, table, arg, nowMs, last, issued, clean, admitted>>

\* recordFailedAttempt, lines 110-210: the decision on existingRows[0], its
\* INSERT or UPDATE, and the commit, which releases the lock.  An INSERT that
\* violates the unique identifier aborts the transaction and the call throws.
RecordCommit(p) ==
    /\ pc[p] = "commit"
    /\ LET out == recordFailedAttempt(arg[p], rows[p], nowMs[p])
       IN  IF out.write.op = "insert" /\ UniqueViolation(table, arg[p])
           THEN /\ table' = table
                /\ last' = Returned("recordFailure", arg[p], nowMs[p], rows[p], Threw)
           ELSE /\ table' = ApplyWrite(table, arg[p], out.write)
                /\ last' = Returned("recordFailure", arg[p], nowMs[p], rows[p], out.result)
    /\ pc' = [pc EXCEPT ![p] = "idle"]
    /\ arg' = [arg EXCEPT ![p] = NoId]
    /\ rows' = [rows EXCEPT ![p] = <<>>]
    /\ nowMs' = [nowMs EXCEPT ![p] = 0]
    /\ UNCHANGED <<req, now, issued, clean, admitted>>

\* Variant: the statement takes effect although the call throws, as it
\* would outside a transaction.
RecordFault_WriteKept(p) ==
    /\ Recording(p)
    /\ table' = IF pc[p] = "commit"
                THEN ApplyWrite(table, arg[p],
                         recordFailedAttempt(arg[p], rows[p], nowMs[p]).write)
                ELSE table
    /\ last' = Returned("recordFailure", arg[p], nowMs[p], rows[p], Threw)
    /\ pc' = [pc EXCEPT ![p] = "idle"]
    /\ arg' = [arg EXCEPT ![p] = NoId]
    /\ rows' = [rows EXCEPT ![p] = <<>>]
    /\ nowMs' = [nowMs EXCEPT ![p] = 0]
    /\ UNCHANGED <<req, now, issued, clean, admitted>>
\* recordFailedAttempt, lines 103-210: a statement of the transaction (the
\* SELECT, the INSERT, the UPDATE) or its commit rejects.  db.transaction
\* rolls back, which releases the lock, and the rejection leaves
\* recordFailedAttempt, which catches nothing.
RecordFault(p) ==
    /\ Recording(p)
    /\ table' = table
    /\ last' = Returned("recordFailure", arg[p], nowMs[p], rows[p], Threw)
    /\ pc' = [pc EXCEPT ![p] = "idle"]
    /\ arg' = [arg EXCEPT ![p] = NoId]
    /\ rows' = [rows EXCEPT ![p] = <<>>]
    /\ nowMs' = [nowMs EXCEPT ![p] = 0]
    /\ UNCHANGED <<req, now, issued, clean, admitted>>

\* clearRateLimit, lines 217-219.  The DELETE waits for the lock of the row.
Clear(p, id) ==
    /\ MayCall(p, id)
    /\ ~Locked(id, p)
    /\ table' = clearRateLimit(table, id)
    /\ pc' = [pc EXCEPT ![p] = "idle"]
    /\ arg' = [arg EXCEPT ![p] = NoId]
    /\ last' = Returned("clear", id, now, SelectWhere(table, id), NoResult)
    /\ clean' = [clean EXCEPT ![id] = FALSE]
    /\ admitted' = [admitted EXCEPT ![id] = 0]
    /\ UNCHANGED <<req, now, nowMs, rows, issued>>

\* The clock advances, by one millisecond or by a whole window.
AdvanceBy(d) ==
    /\ now' = now + d
    /\ issued' = [id \in Ids |-> 0]
    /\ admitted' = [id \in Ids |-> 0]
    /\ clean' = [id \in Ids |->
                    /\ SelectWhere(table, id) = <<>>
                    /\ \A p \in Procs : Recording(p) => arg[p] # id]
    /\ UNCHANGED <<req, table, pc, arg, nowMs, rows, last>>
Tick ==
    /\ now % WINDOW_MS < MaxTicks
    /\ AdvanceBy(1)
Jump ==
    /\ now \div WINDOW_MS < MaxWindows
    /\ AdvanceBy(WINDOW_MS)

Next ==
    \/ \E p \in Procs, id \in Clients : CheckBegin(p, id)
    \/ \E p \in Procs : CheckReturn(p)
    \/ \E p \in Procs, id \in Clients : RecordBegin(p, id)
    \/ \E p \in Procs : RecordSelect(p)
    \/ \E p \in Procs : RecordCommit(p)
    \/ \E p \in Procs, id \in Clients : Clear(p, id)
    \/ Tick
    \/ Jump

Spec == Init /\ [][Next]_vars

\* The same calls, one at a time: a call begins only when no call is in
\* progress, and the clock advances only between calls.
NextSerial ==
    \/ \E p \in Procs, id \in Clients : Quiet /\ CheckBegin(p, id)
    \/ \E p \in Procs : CheckReturn(p)
    \/ \E p \in Procs, id \in Clients : Quiet /\ RecordBegin(p, id)
    \/ \E p \in Procs : RecordSelect(p)
    \/ \E p \in Procs : RecordCommit(p)
    \/ \E p \in Procs, id \in Clients : Quiet /\ Clear(p, id)
    \/ Quiet /\ Tick
    \/ Quiet /\ Jump

SpecSerial == Init /\ [][NextSerial]_vars

\* The requests of Spec under a clock that keeps advancing until it stands
\* a block and MaxTicks past the last instant at which a recordFailedAttempt
\* may begin.
CanExpire == (now + BLOCK_DURATION_MS) \div WINDOW_MS <= MaxWindows
NextLive ==
    \/ \E p \in Procs, id \in Clients : CheckBegin(p, id)
    \/ \E p \in Procs : CheckReturn(p)
    \/ \E p \in Procs, id \in Clients : CanExpire /\ RecordBegin(p, id)
    \/ \E p \in Procs : RecordSelect(p)
    \/ \E p \in Procs : RecordCommit(p)
    \/ \E p \in Procs, id \in Clients : Clear(p, id)
    \/ Tick
    \/ Jump

\* Time keeps advancing.
SpecLive == Init /\ [][NextLive]_vars /\ WF_vars(Tick) /\ WF_vars(Jump)

\* getClientIP applied to the headers of a request.
InitIP ==
    /\ InitStore
    /\ req \in [headers : Headers, identifier : {NoHeader}]
Derive ==
    /\ req.identifier = NoHeader
    /\ req' = [req EXCEPT !.identifier = getClientIP(req.headers)]
    /\ UNCHANGED <<now, table, pc, arg, nowMs, rows, last, issued, clean,
                   admitted>>
NextIP == Derive

SpecIP == InitIP /\ [][NextIP]_vars

\* Overlapping requests within one window, with a store that may fail in
\* recordFailedAttempt.
NextFault ==
    \/ \E p \in Procs, id \in Clients : CheckBegin(p, id)
    \/ \E p \in Procs : CheckReturn(p)
    \/ \E p \in Procs, id \in Clients : RecordBegin(p, id)
    \/ \E p \in Procs : RecordSelect(p)
    \/ \E p \in Procs : RecordCommit(p)
    \/ \E p \in Procs : RecordFault(p)
    \/ \E p \in Procs, id \in Clients : Clear(p, id)
    \/ Tick

SpecFault == Init /\ [][NextFault]_vars

\* Requests for two identifiers, overlapping, within one window: the clock
\* advances by milliseconds only, and at one instant each identifier gets
\* at most MaxIssued recordFailedAttempt calls and MaxIssued admissions.
Few(id) == issued[id] < MaxIssued /\ admitted[id] < MaxIssued
NextTwo ==
    \/ \E p \in Procs, id \in Ids : Few(id) /\ CheckBegin(p, id)
    \/ \E p \in Procs : CheckReturn(p)
    \/ \E p \in Procs, id \in Ids : Few(id) /\ RecordBegin(p, id)
    \/ \E p \in Procs : RecordSelect(p)
    \/ \E p \in Procs : RecordCommit(p)
    \/ \E p \in Procs, id \in Ids : Clear(p, id)
    \/ Tick

SpecTwo == Init /\ [][NextTwo]_vars

\* ================================================================ claims
RowsOf(id) == SelectWhere(table, id)
HasRow(id) == RowsOf(id) # <<>>
RowOf(id) == RowsOf(id)[1]
RecordingFor(id) == \E p \in Procs : Recording(p) /\ arg[p] = id
\* The last call to return was recordFailedAttempt and it returned a result.
RecordReturned == last.call = "recordFailure" /\ last.value.outcome = "returned"

\* C1: recordFailedAttempt calls for one identifier that are all issued at
\* one instant, from no row and with no clearRateLimit in between, lose no
\* increment: once they have all finished there is one row whose count is
\* the count their serial execution gives, the number of calls up to
\* MAX_ATTEMPTS.
C1_NoLostUpdate ==
    \A id \in Ids :
        (clean[id] /\ issued[id] > 0 /\ ~RecordingFor(id)) =>
            /\ HasRow(id)
            /\ RowOf(id).count = Min2(issued[id], MAX_ATTEMPTS)

\* C2: at one instant, and since the identifier was last cleared,
\* checkRateLimit lets at most MAX_ATTEMPTS attempts through to the
\* credential verification.
C2_AllowanceNotDoubleGranted ==
    \A id \in Ids : admitted[id] <= MAX_ATTEMPTS

\* The row a window reset or a first failure at time t leaves.
FreshRow(id, t) == Row(id, 1, Date(t), Date(t), Null)
\* The record the last call found was neither under an active block nor
\* past its window at the time of that call.
FoundCounting ==
    /\ last.before # <<>>
    /\ ~(/\ last.before[1].blockedUntil # Null
         /\ getTime(last.before[1].blockedUntil) > last.at)
    /\ last.at <= getTime(last.before[1].firstAttemptAt) + WINDOW_MS
\* The record the last call found had a block that was over at that call.
FoundBlockOver ==
    /\ last.before # <<>>
    /\ last.before[1].blockedUntil # Null
    /\ getTime(last.before[1].blockedUntil) <= last.at
\* The record the last call found is, now, under a block.
FoundBlockedNow ==
    /\ last.before # <<>>
    /\ last.before[1].blockedUntil # Null
    /\ getTime(last.before[1].blockedUntil) > now

\* C3: the k-th recordFailedAttempt of a window (the first finds no row, the
\* k-th finds count k-1) returns success and leaves blockedUntil NULL while
\* k < MAX_ATTEMPTS; the MAX_ATTEMPTS-th returns blocked and stores
\* blockedUntil = the time of that call + BLOCK_DURATION_MS.
C3_BlockOnFinalCall ==
    (RecordReturned /\ (last.before = <<>> \/ FoundCounting)) =>
        LET k == IF last.before = <<>> THEN 1 ELSE last.before[1].count + 1
        IN  /\ HasRow(last.id)
            /\ RowOf(last.id).count = k
            /\ k < MAX_ATTEMPTS =>
                  /\ last.value.success
                  /\ ~last.value.blocked
                  /\ RowOf(last.id).blockedUntil = Null
            /\ k = MAX_ATTEMPTS =>
                  /\ ~last.value.success
                  /\ last.value.blocked
                  /\ RowOf(last.id).blockedUntil = Date(last.at + BLOCK_DURATION_MS)
C3_Witness ==
    /\ RecordReturned
    /\ FoundCounting
    /\ last.before[1].count = MAX_ATTEMPTS - 1
    /\ last.value.blocked
    /\ last.at > 0
    /\ RowOf(last.id).blockedUntil = Date(last.at + BLOCK_DURATION_MS)

\* C4: a checkRateLimit or recordFailedAttempt call that found a record whose
\* blockedUntil is later than the current time returned success=false,
\* blocked=true, remaining=0, and recordFailedAttempt left the row as it was.
C4_BlockDominates ==
    (last.call \in {"check", "recordFailure"} /\ FoundBlockedNow) =>
        /\ last.value.outcome = "returned"
        /\ ~last.value.success
        /\ last.value.blocked
        /\ last.value.remaining = 0
        /\ last.call = "recordFailure" => RowsOf(last.id) = last.before
C4_Witness ==
    /\ RecordReturned
    /\ FoundBlockedNow
    /\ now > getTime(last.before[1].firstAttemptAt) + WINDOW_MS
    /\ last.value.blocked
    /\ RowsOf(last.id) = last.before

C6_ResetOrIncrement ==
    (/\ RecordReturned
     /\ last.before # <<>>
     /\ ~(/\ last.before[1].blockedUntil # Null
          /\ getTime(last.before[1].blockedUntil) > last.at)) =>
        IF last.at > getTime(last.before[1].firstAttemptAt) + WINDOW_MS
        THEN RowsOf(last.id) = <<FreshRow(last.id, last.at)>>
        ELSE /\ HasRow(last.id)
             /\ RowOf(last.id).count = last.before[1].count + 1
             /\ RowOf(last.id).firstAttemptAt = last.before[1].firstAttemptAt
C6_Witness ==
    /\ RecordReturned
    /\ last.before # <<>>
    /\ last.at = getTime(last.before[1].firstAttemptAt) + WINDOW_MS
    /\ RowOf(last.id).count = last.before[1].count + 1

\* C7: after clearRateLimit no row is left for the identifier, whatever was
\* there before, and a checkRateLimit that finds no row returns what it
\* returns for an identifier never seen.
C7_ClearForgets ==
    /\ last.call = "clear" => ~HasRow(last.id)
    /\ (last.call = "check" /\ last.before = <<>>) =>
          last.value = Result(TRUE, MAX_ATTEMPTS, WINDOW_MS \div 1000, FALSE, NoMessage)
C7_Witness ==
    /\ last.call = "clear"
    /\ FoundBlockedNow
    /\ ~HasRow(last.id)

\* C8: checkRateLimit leaves the rows of its identifier as it found them,
\* also when the window or the block it finds is over.
C8_CheckReadsOnly ==
    last.call = "check" => RowsOf(last.id) = last.before
C8_Witness ==
    /\ last.call = "check"
    /\ FoundBlockOver
    /\ last.value.success
    /\ RowsOf(last.id) = last.before

C10_OneRowPerIdentifier ==
    \A id \in Ids : Len(RowsOf(id)) <= 1
C10_Witness ==
    /\ last.call = "recordFailure"
    /\ last.before = <<>>
    /\ last.value.outcome = "threw"
    /\ Len(RowsOf(last.id)) = 1

\* C11: the k-th recordFailedAttempt of a window returns, for k = 1..4,
\* success=true with remaining 4, 3, 2, 1 and the warning exactly when
\* remaining is 2 or 1; the 5th returns success=false, blocked=true,
\* remaining=0, resetIn=1800.
C11_FiveFailures ==
    (RecordReturned /\ (last.before = <<>> \/ FoundCounting)) =>
        LET k == IF last.before = <<>> THEN 1 ELSE last.before[1].count + 1
        IN  /\ k \in 1..(MAX_ATTEMPTS - 1) =>
                  /\ last.value.success
                  /\ ~last.value.blocked
                  /\ last.value.remaining = MAX_ATTEMPTS - k
                  /\ last.value.message =
                        IF k \in {3, 4}
                        THEN <<"attemptsLeft", MAX_ATTEMPTS - k>>
                        ELSE NoMessage
            /\ k = MAX_ATTEMPTS =>
                  /\ ~last.value.success
                  /\ last.value.blocked
                  /\ last.value.remaining = 0
                  /\ last.value.resetIn = 1800
C11_Witness ==
    /\ RecordReturned
    /\ FoundCounting
    /\ last.before[1].count = 2
    /\ last.value.remaining = 2
    /\ last.value.message = <<"attemptsLeft", 2>>

\* C12: recordFailedAttempt and clearRateLimit for one identifier leave the
\* rows of every other identifier as they were, and the row lock a
\* recordFailedAttempt holds makes no call for another identifier wait: a
\* recordFailedAttempt or clearRateLimit can take its step unless the lock
\* of its own identifier is held, and checkRateLimit always can.
HoldsLock(p) == pc[p] = "commit" /\ rows[p] # <<>>
LockHeldOn(id, q) == \E p \in Procs \ {q} : HoldsLock(p) /\ arg[p] = id
C12_OtherIdentifiersUntouched ==
    [][/\ \A b \in Ids :
              RowsOf(b)' # RowsOf(b) =>
                  (last'.id = b /\ last'.call \in {"recordFailure", "clear"})
       /\ \A q \in Procs :
              /\ (pc[q] = "select" /\ ~LockHeldOn(arg[q], q)) =>
                     ENABLED RecordSelect(q)
              /\ \A b \in Ids :
                     (MayCall(q, b) /\ ~LockHeldOn(b, q)) => ENABLED Clear(q, b)
              /\ pc[q] = "check" => ENABLED CheckReturn(q)]_vars
C12_Witness ==
    /\ \E p \in Procs : HoldsLock(p) /\ arg[p] = "a"
    /\ last.call = "recordFailure"
    /\ last.id = "b"
    /\ last.value.outcome = "returned"
    /\ HasRow("b")
    /\ RowOf("b").count = 2

\* C13: when recordFailedAttempt ends by throwing (a statement of its
\* transaction or the commit failed), the table is what it was before the
\* step in which the call failed: nothing of its INSERT or UPDATE stays.
C13_FaultLeavesRecord ==
    [][\A p \in Procs :
          (/\ Recording(p)
           /\ pc'[p] = "idle"
           /\ last'.call = "recordFailure"
           /\ last'.value.outcome = "threw") => table' = table]_vars
C13_Witness ==
    /\ last.call = "recordFailure"
    /\ last.value.outcome = "threw"
    /\ last.before # <<>>
    /\ last.before[1].count = MAX_ATTEMPTS - 1
    /\ last.at <= getTime(last.before[1].firstAttemptAt) + WINDOW_MS
    /\ RowsOf(last.id) = last.before

\* C14: getClientIP returns the value of the first populated header among
\* cf-connecting-ip, x-forwarded-for, x-real-ip, whatever the later headers
\* hold, and "unknown" when none is populated; when x-forwarded-for is the
\* first populated one, the result is its part before the first comma
\* without the whitespace at both ends.
Populated(v) == v # NoHeader /\ Len(v) > 0
\* r is the first comma-separated entry of v, trimmed: v is spaces, r,
\* spaces, and then ends or goes on with a comma.
FirstEntryTrimmed(v, r) ==
    \E i \in 0..Len(v), j \in 0..Len(v), k \in 1..(Len(v) + 1) :
        /\ i <= j /\ j < k
        /\ k = Len(v) + 1 \/ v[k] = ","
        /\ \A m \in 1..(k - 1) : v[m] # ","
        /\ \A m \in 1..i : v[m] = " "
        /\ \A m \in (j + 1)..(k - 1) : v[m] = " "
        /\ r = [m \in 1..(j - i) |-> v[i + m]]
        /\ r # <<>> => (r[1] # " " /\ r[Len(r)] # " ")
C14_FirstPopulatedHeader ==
    req.identifier # NoHeader =>
        LET h == req.headers
            r == req.identifier
        IN  /\ Populated(h.cf) => r = h.cf
            /\ (~Populated(h.cf) /\ Populated(h.xff)) =>
                   FirstEntryTrimmed(h.xff, r)
            /\ (~Populated(h.cf) /\ ~Populated(h.xff) /\ Populated(h.xri)) =>
                   r = h.xri
            /\ (~Populated(h.cf) /\ ~Populated(h.xff) /\ ~Populated(h.xri)) =>
                   r = unknown
C14_Witness ==
    /\ req.headers.cf = <<>>
    /\ req.headers.xff = <<"1", " ", ",">>
    /\ req.headers.xri = <<"1">>
    /\ req.identifier = <<"1">>

\* C15: a checkRateLimit that finds a record whose blockedUntil has passed
\* allows the attempt with the full allowance: success=true, blocked=false,
\* remaining=MAX_ATTEMPTS.
C15_AllowedAfterBlock ==
    (last.call = "check" /\ last.value.outcome = "returned" /\ FoundBlockOver) =>
        /\ last.value.success
        /\ ~last.value.blocked
        /\ last.value.remaining = MAX_ATTEMPTS

\* C16: while the block of an identifier runs, a request that passed
\* checkRateLimit before the block was set and now goes on (with
\* recordFailedAttempt or clearRateLimit) leaves the block in force: a
\* checkRateLimit at the same time still denies with blocked=true.
ActiveBlock(id) ==
    /\ HasRow(id)
    /\ RowOf(id).blockedUntil # Null
    /\ getTime(RowOf(id).blockedUntil) > now
C16_BlockSurvivesInFlight ==
    [][\A p \in Procs :
          (pc[p] = "verify" /\ pc'[p] # "verify" /\ ActiveBlock(arg[p])) =>
              LET after == checkRateLimit(SelectWhere(table', arg[p]), now)
              IN  ~after.success /\ after.blocked]_vars

\* C17: every denial ends: from a state in which checkRateLimit would deny
\* the identifier, a state is reached in which it would allow it, whatever
\* recordFailedAttempt calls are made meanwhile.
CheckAllows(id) == checkRateLimit(RowsOf(id), now).success
C17_DenialEnds == (~CheckAllows("a")) ~> CheckAllows("a")
C17_Witness ==
    /\ CheckAllows("a")
    /\ HasRow("a")
    /\ RowOf("a").blockedUntil # Null
    /\ RecordReturned
    /\ last.value.blocked
    /\ last.before = RowsOf("a")
    /\ last.at > getTime(RowOf("a").lastAttemptAt)

\* C18: a row has blockedUntil set exactly when its count is MAX_ATTEMPTS.
C18_BlockedIffAtLimit ==
    \A i \in 1..Len(table) :
        table[i].blockedUntil # Null <=> table[i].count = MAX_ATTEMPTS

\* C19: checkRateLimit never denies without a block: no result has
\* success=false and blocked=false.
C19_NoDenialWithoutBlock ==
    (last.call = "check" /\ last.value.outcome = "returned") =>
        (last.value.success \/ last.value.blocked)

\* C20: in every row firstAttemptAt is not later than lastAttemptAt.
C20_AttemptTimesOrdered ==
    \A i \in 1..Len(table) :
        getTime(table[i].firstAttemptAt) <= getTime(table[i].lastAttemptAt)

====
